---- MODULE Spec2Model ----
(***************************************************************************)
(* Model of the refresh / theme-synchronisation / teardown engine of the   *)
(* Canvas grade widget (src/canvas_grade_widget.py).                       *)
(*                                                                         *)
(* Two threads of control are modelled: the UI thread (Qt event loop and   *)
(* the handlers of CanvasGradeWidget and SettingsDialog) and the           *)
(* CanvasAPIWorker threads started by refresh_data.  A network call of a   *)
(* worker is two steps (call issued, call returned) so that stop() and     *)
(* terminate() can arrive while the call is in flight.  Signals emitted by *)
(* a worker are queued to the UI thread (ui_queue) and handled there.      *)
(*                                                                         *)
(* Abstractions: Python None is the string "None"; the time stamp in the   *)
(* status text (get_current_time) is left out; a style payload is          *)
(* identified by the concrete theme it was computed from.                  *)
(***************************************************************************)
EXTENDS Integers, Sequences, FiniteSets, TLC

\* ------------------------------------------------------------------ bounds
\* Worker objects that may exist (running) at the same time.
MaxWorkers == 2
\* Longest course list the server returns.
MaxCourses == 3
\* Longest course list under the scheduler specification.
MinCourses == 1
\* Queued signals the model keeps (a worker emits at most two per cycle).
MaxQueue == 3
\* QMessageBox dialogs open at the same time.
MaxMsgBox == 1
\* Avatar downloads in flight at most.
MaxAvatars == 2

None == "None"

\* ------------------------------------------------------------- environment
Urls == {"url1", "url2"}
Tokens == {"", "tok"}
Profiles == {"p1"}
GradeInfos == {"cur", "fin"}
ListFailures == {"http401", "timeout"}

\* The keys of THEMES.
THEMES == {"auto", "light", "dark", "nord"}
\* Identifiers config.py may hold: the keys of THEMES and an unknown name.
ThemeIds == THEMES \cup {"solarized"}

WorkerIds == 1..MaxWorkers

\* The 'name' of a course object: a string, or null.
CourseNames == {"n", None}

\* A course of the course-list response: id 0 stands for a course object
\* without an 'id' key; grade_info "absent" for the key not yet assigned.
RawCourse(i, hasId, name) ==
    [id |-> IF hasId THEN i ELSE 0, name |-> name, grade_info |-> "absent"]

RECURSIVE RawLists(_)
RawLists(n) ==
    IF n = 0 THEN {<<>>}
    ELSE LET shorter == RawLists(n - 1)
         IN shorter \cup
            UNION {{Append(l, RawCourse(n, b, name)) :
                        l \in {s \in shorter : Len(s) = n - 1}, b \in BOOLEAN} :
                   name \in CourseNames}

CourseLists == RawLists(MaxCourses)

VARIABLES
    canvas_url,             \* CanvasGradeWidget.canvas_url
    api_token,              \* CanvasGradeWidget.api_token
    courses,                \* CanvasGradeWidget.courses
    theme_applying,         \* CanvasGradeWidget.theme_applying
    current_applied_theme,  \* CanvasGradeWidget.current_applied_theme
    main_style,             \* style sheet last set on the main widget
    status_label,           \* text of CanvasGradeWidget.status_label
    refresh_button,         \* refresh_button.isEnabled()
    refresh_timer,          \* refresh_timer.isActive()
    api_worker,             \* slot of the worker self.api_worker refers to, 0: none
    profile_data,           \* ProfileWidget.profile_data
    name_label,             \* ProfileWidget: the text of the name label
    avatar_label,           \* ProfileWidget: the picture on the avatar label
    avatar_requests,        \* ProfileWidget: avatar downloads in flight
    config_py,              \* the lines of the file config.py
    config_module,          \* THEME of the module config as imported at startup
    system_theme,           \* host appearance seen by get_system_theme
    workers,                \* the CanvasAPIWorker objects
    ui_queue,               \* signals queued to the UI thread
    ui_pc,                  \* position of the UI thread
    msgbox,                 \* QMessageBox dialogs open (nested event loops)
    dialog,                 \* the SettingsDialog, when open
    pending,                \* QTimer.singleShot callbacks not yet fired
    ui_out,                 \* style sheets set, course widgets rebuilt and worker started by the last UI handler
    close_log,              \* the steps closeEvent has performed, in order
    last_check,             \* the last check_theme_changes call, see refresh_data
    shown                   \* per cause of a failed course-list call, the status text on_error showed for it

vars == <<canvas_url, api_token, courses, theme_applying, current_applied_theme,
          main_style, status_label, refresh_button, refresh_timer, api_worker,
          profile_data, name_label, avatar_label, avatar_requests, config_py, system_theme, config_module, workers, ui_queue, ui_pc,
          msgbox, dialog, pending, ui_out, close_log, last_check, shown>>

widgetVars == <<canvas_url, api_token, courses, theme_applying,
                current_applied_theme, main_style, status_label, refresh_button,
                refresh_timer, api_worker, profile_data, name_label, avatar_label, avatar_requests, ui_pc, msgbox, dialog, pending,
                ui_out, close_log, last_check, shown>>

\* ------------------------------------------------------------------ theme

\* A line of config.py: pre is what precedes the key (nothing, indentation
\* or a comment sign), sep what separates key and value (' = ' or '='), val
\* the value without its quotes.  A comment or blank line has no key.
Line(pre, key, sep, val) == [pre |-> pre, key |-> key, sep |-> sep, val |-> val]
Blank == Line("", "", "", "")
Comment == Line("# ", "", "", "Canvas API Configuration")

\* f'THEME = "{theme}"'
ThemeLine(theme) == Line("", "THEME", " = ", theme)

\* 'THEME = ' in line
HasThemeText(line) == line.key \in {"THEME", "OLD_THEME"} /\ line.sep = " = "
\* line.startswith('THEME = ')
StartsWithTheme(line) == line.pre = "" /\ line.key = "THEME" /\ line.sep = " = "
\* line.strip().startswith('THEME = ')
StrippedStartsWithTheme(line) ==
    line.pre \in {"", " "} /\ line.key = "THEME" /\ line.sep = " = "

\* The index of the line at which the loop of save_theme_config breaks.
FirstThemeLine(content) ==
    CHOOSE i \in 1..Len(content) :
        StartsWithTheme(content[i])
            /\ \A j \in 1..(i - 1) : ~StartsWithTheme(content[j])

\* The index of the line at which the loop of load_theme_config returns.
FirstStrippedThemeLine(content) ==
    CHOOSE i \in 1..Len(content) :
        StrippedStartsWithTheme(content[i])
            /\ \A j \in 1..(i - 1) : ~StrippedStartsWithTheme(content[j])

\* A save_theme_config that writes the file anew from the template, as
\* save_config does, with no connection settings at hand.
save_theme_config_from_template(content, theme) ==
    <<Line("# ", "", "", "Canvas API Configuration"),
      Line("", "CANVAS_BASE_URL", " = ", ""),
      Line("", "API_TOKEN", " = ", ""), ThemeLine(theme), Line("", "", "", "")>>

\* save_theme_config: the lines of config.py after the call, content being
\* the lines before it.
save_theme_config(content, theme) ==
    IF \E i \in 1..Len(content) : HasThemeText(content[i])
    THEN IF \E i \in 1..Len(content) : StartsWithTheme(content[i])
         THEN [content EXCEPT ![FirstThemeLine(content)] = ThemeLine(theme)]
         ELSE content
    ELSE content \o <<ThemeLine(theme), Blank>>

\* save_config: the file is written anew from the template.
save_config(url, token, theme) ==
    <<Comment, Line("", "CANVAS_BASE_URL", " = ", url),
      Line("", "API_TOKEN", " = ", token), ThemeLine(theme), Blank>>

\* A config.py without THEME entry.
NoThemeFile(url, token) ==
    <<Comment, Line("", "CANVAS_BASE_URL", " = ", url),
      Line("", "API_TOKEN", " = ", token), Blank>>

\* The value a Python import of the file binds to name: the last top-level
\* assignment; "None" when there is none or the file does not compile
\* (an indented line).
Imported(content, name) ==
    LET assigns == {i \in 1..Len(content) :
                        content[i].pre = "" /\ content[i].key = name}
    IN  IF assigns = {} \/ \E i \in 1..Len(content) : content[i].pre = " "
        THEN None
        ELSE content[CHOOSE i \in assigns : \A j \in assigns : j <= i].val

\* load_theme_config, the part that reads the file: the value of the first
\* line that starts with 'THEME = ' after strip(), "None" when no line does.
FileTheme(content) ==
    IF \E i \in 1..Len(content) : StrippedStartsWithTheme(content[i])
    THEN content[FirstStrippedThemeLine(content)].val
    ELSE None

\* The THEME entry load_theme_config finds in config.py, "None": no entry.
config_theme == FileTheme(config_py)

\* load_theme_config with the file holding the entry `theme`: without entry
\* the fallback `from config import THEME` yields the THEME of the module
\* cached at startup, and 'auto' when that import fails.
load_theme_config(theme) ==
    IF theme # None THEN theme
    ELSE IF config_module # None THEN config_module
    ELSE "auto"

get_system_theme == system_theme

\* get_theme_styles without the fallback to 'light' for an unknown name.
get_theme_styles_no_default(theme_name) ==
    IF theme_name = "auto" THEN get_system_theme ELSE theme_name

\* get_theme_styles: the payload is identified by the concrete theme whose
\* colours it is built from.
get_theme_styles(theme_name) ==
    LET n1 == IF theme_name = "auto" THEN get_system_theme ELSE theme_name
    IN  IF n1 \notin THEMES \/ n1 = "auto" THEN "light" ELSE n1

\* One push to the UI: op is the widget call (setStyleSheet of the main
\* widget, display_courses, refresh_button.setStyleSheet), arg its argument.
Push(op, arg) == [op |-> op, arg |-> arg]

StylePushes(out) == {i \in 1..Len(out) : out[i].op = "setStyleSheet"}
Rebuilds(out) == {i \in 1..Len(out) : out[i].op = "display_courses"}

\* apply_theme without the assignment to current_applied_theme.
apply_theme_unrecorded(applied, style, theme) ==
    LET current_theme_from_config == load_theme_config(theme)
    IN  IF applied = current_theme_from_config
        THEN [applied |-> applied, style |-> style, out |-> <<>>]
        ELSE LET styles == get_theme_styles(current_theme_from_config)
             IN  [applied |-> applied,
                  style |-> styles,
                  out |-> <<Push("setStyleSheet", styles)>>]

\* CanvasGradeWidget.apply_theme with the store holding `theme`: the new
\* current_applied_theme, the new main style and the pushes made.
apply_theme(applied, style, theme) ==
    LET current_theme_from_config == load_theme_config(theme)
    IN  IF applied = current_theme_from_config
        THEN [applied |-> applied, style |-> style, out |-> <<>>]
        ELSE LET styles == get_theme_styles(current_theme_from_config)
             IN  [applied |-> current_theme_from_config,
                  style |-> styles,
                  out |-> <<Push("setStyleSheet", styles)>>]

\* check_theme_changes without the comparison of the configured theme with
\* current_applied_theme.
check_theme_changes_unguarded(applied, style, theme) ==
    LET a == apply_theme(applied, style, theme)
    IN  [applied |-> a.applied, style |-> a.style,
         out |-> a.out \o <<Push("display_courses", "")>>]

\* CanvasGradeWidget.check_theme_changes.
check_theme_changes(applied, style, theme) ==
    LET current_config_theme == load_theme_config(theme)
    IN  IF current_config_theme # applied
        THEN LET a == apply_theme(applied, style, theme)
             IN  [applied |-> a.applied, style |-> a.style,
                  out |-> a.out \o <<Push("display_courses", "")>>]
        ELSE [applied |-> applied, style |-> style, out |-> <<>>]

\* ----------------------------------------------------------------- worker

\* A CanvasAPIWorker: st is the thread state (isRunning() <=> st = "running";
\* a slot never used, a finished thread and a terminated one are "stopped"),
\* pc the position in run, stop the _stop_requested flag, profile and courses
\* the locals of run, idx the position of the for loop, log the network calls
\* made so far with what each returned and the profile_fetched emission.
\* stop_in_grades is kept for the analysis only: stop() arrived after
\* get_canvas_courses returned and before the last grade call completed.
FreshWorker(url, token) ==
    [st |-> "running", pc |-> "start", stop |-> FALSE, profile |-> None,
     courses_ok |-> FALSE, courses |-> <<>>, idx |-> 1, log |-> <<>>,
     canvas_url |-> url, stop_in_grades |-> FALSE]

NoWorker ==
    [st |-> "stopped", pc |-> "done", stop |-> FALSE, profile |-> None,
     courses_ok |-> FALSE, courses |-> <<>>, idx |-> 1, log |-> <<>>,
     canvas_url |-> None, stop_in_grades |-> FALSE]

isRunning(w) == workers[w].st = "running"

Call(name, arg, resp) == [call |-> name, arg |-> arg, resp |-> resp]

\* A signal on its way to the UI thread.  cause is the outcome of the
\* course-list call of the emitting cycle (kept for the analysis only).
Signal(sig, list, text, cause) ==
    [sig |-> sig, courses |-> list, text |-> text, cause |-> cause]

ListCause(w) ==
    LET calls == {i \in 1..Len(workers[w].log) : workers[w].log[i].call = "courses"}
    IN  IF calls = {} THEN "" ELSE workers[w].log[CHOOSE i \in calls : TRUE].resp

Alive == ui_pc # "exited"

\* run has returned: the thread is finished and its locals are gone.
Finished(rec) == NoWorker

\* run, line 922, and the call of get_user_profile.
WorkerStart(w) ==
    /\ Alive /\ isRunning(w) /\ workers[w].pc = "start"
    /\ workers' = [workers EXCEPT ![w] =
            IF @.stop THEN Finished(@) ELSE [@ EXCEPT !.pc = "in_profile"]]
    /\ UNCHANGED <<widgetVars, config_py, system_theme, config_module, ui_queue>>

\* get_user_profile returns: the profile on HTTP 200, None otherwise.
ProfileReturn(w, resp) ==
    /\ Alive /\ isRunning(w) /\ workers[w].pc = "in_profile"
    /\ workers' = [workers EXCEPT ![w] =
            [@ EXCEPT !.pc = "after_profile", !.profile = resp,
                      !.log = Append(@, Call("profile", 0, resp))]]
    /\ UNCHANGED <<widgetVars, config_py, system_theme, config_module, ui_queue>>

\* AfterProfile with a failed profile call ending the cycle in an error.
AfterProfile_abort(w) ==
    /\ Alive /\ isRunning(w) /\ workers[w].pc = "after_profile"
    /\ Len(ui_queue) < MaxQueue
    /\ IF workers[w].profile = None
       THEN /\ ui_queue' = Append(ui_queue,
                   Signal("error_occurred", <<>>, "Failed to fetch profile", ""))
            /\ workers' = [workers EXCEPT ![w] = Finished(@)]
       ELSE /\ ui_queue' = Append(ui_queue,
                   Signal("profile_fetched", <<>>, workers[w].profile, ""))
            /\ workers' = [workers EXCEPT ![w] =
                    [@ EXCEPT !.pc = "in_courses",
                              !.log = Append(@, Call("emit", 0, "profile_fetched"))]]
    /\ UNCHANGED <<widgetVars, config_py, system_theme, config_module>>

\* run, lines 927-930: emit the profile, call get_canvas_courses.
AfterProfile(w) ==
    /\ Alive /\ isRunning(w) /\ workers[w].pc = "after_profile"
    /\ IF workers[w].profile # None /\ ~workers[w].stop
       THEN /\ Len(ui_queue) < MaxQueue
            /\ ui_queue' = Append(ui_queue,
                   Signal("profile_fetched", <<>>, workers[w].profile, ""))
            /\ workers' = [workers EXCEPT ![w] =
                    [@ EXCEPT !.pc = "in_courses",
                              !.log = Append(@, Call("emit", 0, "profile_fetched"))]]
       ELSE /\ UNCHANGED ui_queue
            /\ workers' = [workers EXCEPT ![w].pc = "in_courses"]
    /\ UNCHANGED <<widgetVars, config_py, system_theme, config_module>>

\* get_canvas_courses returns: the list on HTTP 200, None otherwise.
CoursesReturn(w, status, list) ==
    /\ Alive /\ isRunning(w) /\ workers[w].pc = "in_courses"
    /\ workers' = [workers EXCEPT ![w] =
            [@ EXCEPT !.pc = "after_courses",
                      !.courses_ok = (status = "ok"),
                      !.courses = IF status = "ok" THEN list ELSE <<>>,
                      !.log = Append(@, Call("courses", 0, status))]]
    /\ UNCHANGED <<widgetVars, config_py, system_theme, config_module, ui_queue>>

\* AfterCourses with run going on into the loop after the failure has been
\* emitted.
AfterCourses_falls_through(w) ==
    /\ Alive /\ isRunning(w) /\ workers[w].pc = "after_courses"
    /\ IF workers[w].courses_ok /\ Len(workers[w].courses) > 0 /\ ~workers[w].stop
       THEN UNCHANGED ui_queue
       ELSE /\ Len(ui_queue) < MaxQueue
            /\ ui_queue' = Append(ui_queue,
                   Signal("error_occurred", <<>>, "Failed to fetch courses",
                          ListCause(w)))
    /\ workers' = [workers EXCEPT ![w].pc = "loop", ![w].idx = 1]
    /\ UNCHANGED <<widgetVars, config_py, system_theme, config_module>>

\* AfterCourses with the failure written to the status text and the button
\* of the widget from the worker thread instead of being emitted.
AfterCourses_writes_widget(w) ==
    /\ Alive /\ isRunning(w) /\ workers[w].pc = "after_courses"
    /\ IF workers[w].courses_ok /\ Len(workers[w].courses) > 0 /\ ~workers[w].stop
       THEN /\ workers' = [workers EXCEPT ![w].pc = "loop", ![w].idx = 1]
            /\ UNCHANGED <<status_label, refresh_button>>
       ELSE /\ status_label' = "Error: Failed to fetch courses"
            /\ refresh_button' = TRUE
            /\ workers' = [workers EXCEPT ![w] = Finished(@)]
    /\ UNCHANGED <<canvas_url, api_token, courses, theme_applying,
                   current_applied_theme, main_style, refresh_timer, api_worker,
                   profile_data, name_label, avatar_label, avatar_requests, ui_pc, msgbox, dialog, pending, ui_out,
                   close_log, last_check, shown, config_py, system_theme,
                   config_module, ui_queue>>

\* run, lines 931 and 939-940.
AfterCourses(w) ==
    /\ Alive /\ isRunning(w) /\ workers[w].pc = "after_courses"
    /\ IF workers[w].courses_ok /\ Len(workers[w].courses) > 0 /\ ~workers[w].stop
       THEN /\ workers' = [workers EXCEPT ![w].pc = "loop", ![w].idx = 1]
            /\ UNCHANGED ui_queue
       ELSE /\ Len(ui_queue) < MaxQueue
            /\ ui_queue' = Append(ui_queue,
                   Signal("error_occurred", <<>>, "Failed to fetch courses",
                          ListCause(w)))
            /\ workers' = [workers EXCEPT ![w] = Finished(@)]
    /\ UNCHANGED <<widgetVars, config_py, system_theme, config_module>>

\* LoopStep with the loop left one iteration early: courses_fetched is
\* emitted when the last grade call has not been made.
LoopStep_early(w) ==
    /\ Alive /\ isRunning(w) /\ workers[w].pc = "loop"
    /\ LET rec == workers[w]
       IN  IF rec.idx >= Len(rec.courses)
           THEN /\ Len(ui_queue) < MaxQueue
                /\ ui_queue' = Append(ui_queue,
                       Signal("courses_fetched", rec.courses, "", ListCause(w)))
                /\ workers' = [workers EXCEPT ![w] = Finished(@)]
           ELSE IF rec.stop
           THEN /\ workers' = [workers EXCEPT ![w] = Finished(@)]
                /\ UNCHANGED ui_queue
           ELSE IF rec.courses[rec.idx].id = 0
           THEN /\ Len(ui_queue) < MaxQueue
                /\ ui_queue' = Append(ui_queue,
                       Signal("error_occurred", <<>>, "Error: 'id'", ListCause(w)))
                /\ workers' = [workers EXCEPT ![w] = Finished(@)]
           ELSE /\ workers' = [workers EXCEPT ![w].pc = "in_grade"]
                /\ UNCHANGED ui_queue
    /\ UNCHANGED <<widgetVars, config_py, system_theme, config_module>>

\* LoopStep with the KeyError of course['id'] leaving run uncaught: the
\* thread ends and nothing is emitted.
LoopStep_propagates(w) ==
    /\ Alive /\ isRunning(w) /\ workers[w].pc = "loop"
    /\ LET rec == workers[w]
       IN  IF rec.idx > Len(rec.courses)
           THEN /\ Len(ui_queue) < MaxQueue
                /\ ui_queue' = Append(ui_queue,
                       Signal("courses_fetched", rec.courses, "", ListCause(w)))
                /\ workers' = [workers EXCEPT ![w] = Finished(@)]
           ELSE IF rec.stop \/ rec.courses[rec.idx].id = 0
           THEN /\ workers' = [workers EXCEPT ![w] = Finished(@)]
                /\ UNCHANGED ui_queue
           ELSE /\ workers' = [workers EXCEPT ![w].pc = "in_grade"]
                /\ UNCHANGED ui_queue
    /\ UNCHANGED <<widgetVars, config_py, system_theme, config_module>>

\* run, lines 933-938 and 941-943: the head of one loop iteration up to the
\* call of get_course_grade, or the code after the loop.
LoopStep(w) ==
    /\ Alive /\ isRunning(w) /\ workers[w].pc = "loop"
    /\ LET rec == workers[w]
       IN  IF rec.idx > Len(rec.courses)
           THEN /\ Len(ui_queue) < MaxQueue
                /\ ui_queue' = Append(ui_queue,
                       Signal("courses_fetched", rec.courses, "", ListCause(w)))
                /\ workers' = [workers EXCEPT ![w] = Finished(@)]
           ELSE IF rec.stop
           THEN /\ workers' = [workers EXCEPT ![w] = Finished(@)]
                /\ UNCHANGED ui_queue
           ELSE IF rec.courses[rec.idx].id = 0
           THEN \* course['id'] raises KeyError; stop is not set here
                /\ Len(ui_queue) < MaxQueue
                /\ ui_queue' = Append(ui_queue,
                       Signal("error_occurred", <<>>, "Error: 'id'", ListCause(w)))
                /\ workers' = [workers EXCEPT ![w] = Finished(@)]
           ELSE /\ workers' = [workers EXCEPT ![w].pc = "in_grade"]
                /\ UNCHANGED ui_queue
    /\ UNCHANGED <<widgetVars, config_py, system_theme, config_module>>

\* GradeReturn with a failed grade call raising out of the loop.
GradeReturn_raises(w, resp) ==
    /\ Alive /\ isRunning(w) /\ workers[w].pc = "in_grade"
    /\ IF resp = None
       THEN /\ Len(ui_queue) < MaxQueue
            /\ ui_queue' = Append(ui_queue,
                   Signal("error_occurred", <<>>, "Error: grade", ListCause(w)))
            /\ workers' = [workers EXCEPT ![w] = Finished(@)]
       ELSE /\ workers' = [workers EXCEPT ![w] =
                    [@ EXCEPT !.pc = "loop",
                              !.courses[@.idx].grade_info = resp,
                              !.idx = @ + 1,
                              !.log = Append(@, Call("grade", workers[w].courses[workers[w].idx].id, resp))]]
            /\ UNCHANGED ui_queue
    /\ UNCHANGED <<widgetVars, config_py, system_theme, config_module>>

\* get_course_grade returns (grade info on HTTP 200, None otherwise) and
\* line 937 stores it in the course.
GradeReturn(w, resp) ==
    /\ Alive /\ isRunning(w) /\ workers[w].pc = "in_grade"
    /\ workers' = [workers EXCEPT ![w] =
            [@ EXCEPT !.pc = "loop",
                      !.courses[@.idx].grade_info = resp,
                      !.idx = @ + 1,
                      !.log = Append(@, Call("grade", workers[w].courses[workers[w].idx].id, resp))]]
    /\ UNCHANGED <<widgetVars, config_py, system_theme, config_module, ui_queue>>

\* ------------------------------------------------------------ grade display

\* What get_course_grade may return, by name, and the dictionary each name
\* stands for: scores as Canvas sends them, "None" for null.
AllGradeInfos ==
    {"cur", "fin", "both", "zero", "ungraded", "letters_only", "cur_noletter",
     "fin_noletter"}

GradeDict(cs, cg, fs, fg) ==
    [current_score |-> cs, current_grade |-> cg, final_score |-> fs,
     final_grade |-> fg]

GradeFields(grade_info) ==
    CASE grade_info = "cur"          -> GradeDict("85.46", "B", None, None)
      [] grade_info = "fin"          -> GradeDict(None, None, "90.12", "A")
      [] grade_info = "both"         -> GradeDict("85.46", "B", "90.12", "A")
      [] grade_info = "zero"         -> GradeDict("0", "", "90.12", "A")
      [] grade_info = "ungraded"     -> GradeDict(None, None, None, None)
      [] grade_info = "letters_only" -> GradeDict(None, "B", None, "A")
      [] grade_info = "cur_noletter" -> GradeDict("85.46", None, "90.12", "A")
      [] grade_info = "fin_noletter" -> GradeDict(None, "B", "90.12", None)

\* f"{score:.1f}%"
Format1f(score) ==
    CASE score = "85.46" -> "85.5%"
      [] score = "90.12" -> "90.1%"
      [] score = "0"     -> "0.0%"

\* `if current_grade:` - a null or empty letter is left out.
Letter(grade) == IF grade \in {None, ""} THEN "" ELSE grade

\* The text of a grade label: a prefix, the formatted score, the letter in
\* parentheses ("" for none).
GradeText(prefix, score, letter) ==
    [prefix |-> prefix, score |-> score, letter |-> letter]

\* create_grade_label with final_score tested before current_score.
create_grade_label_final_first(grade_info) ==
    IF grade_info \in {None, "absent"}
    THEN GradeText("Grade: Not available", "", "")
    ELSE LET g == GradeFields(grade_info)
         IN  IF g.final_score # None
             THEN GradeText("Final: ", Format1f(g.final_score), Letter(g.final_grade))
             ELSE IF g.current_score # None
             THEN GradeText("Current: ", Format1f(g.current_score),
                            Letter(g.current_grade))
             ELSE GradeText("Grade: No grade yet", "", "")

\* CourseWidget.create_grade_label: the text of the label built for a course
\* whose 'grade_info' is grade_info ("absent": the key is missing).
create_grade_label(grade_info) ==
    IF grade_info \in {None, "absent"}
    THEN GradeText("Grade: Not available", "", "")
    ELSE LET g == GradeFields(grade_info)
         IN  IF g.current_score # None
             THEN GradeText("Current: ", Format1f(g.current_score),
                            Letter(g.current_grade))
             ELSE IF g.final_score # None
             THEN GradeText("Final: ", Format1f(g.final_score), Letter(g.final_grade))
             ELSE GradeText("Grade: No grade yet", "", "")

\* canvas_courses.display_courses: the grade line printed for a course whose
\* get_course_grade returned grade_info.
cli_grade_line(grade_info) ==
    IF grade_info = None
    THEN GradeText("Grade: Unable to fetch grade information", "", "")
    ELSE LET g == GradeFields(grade_info)
         IN  IF g.current_score # None
             THEN GradeText("Current Grade: ", Format1f(g.current_score),
                            Letter(g.current_grade))
             ELSE IF g.final_score # None
             THEN GradeText("Final Grade: ", Format1f(g.final_score),
                            Letter(g.final_grade))
             ELSE GradeText("Grade: No grade available", "", "")

\* --------------------------------------------------------------- UI thread

\* The Qt event loop is running (also inside QDialog.exec and QMessageBox):
\* timers fire and queued signals are delivered.
EventLoop == ui_pc = "loop"

\* The main widget takes mouse input: no modal dialog is open.
UserInputMain == ui_pc = "loop" /\ msgbox = 0 /\ ~dialog.open

\* The settings dialog takes mouse input.
UserInputDialog == ui_pc = "loop" /\ msgbox = 0 /\ dialog.open

NoDialog == [open |-> FALSE, original_theme |-> None, combo |-> None]

FreeSlots == {w \in WorkerIds : ~isRunning(w)}

Configured(url, token) == url # None /\ url # "" /\ token # None /\ token # ""

\* last_check (kept for the analysis only): n counts the check_theme_changes
\* calls made since the THEME entry of the store last changed (2: two or
\* more), pushes the style sheets they set (2: two or more), was the
\* current_applied_theme the last of them started from.
Min(a, b) == IF a < b THEN a ELSE b
NoCheck == [n |-> 0, pushes |-> 0, was |-> None]
CheckRecord(prev, was, out) ==
    [n |-> Min(prev.n + 1, 2),
     pushes |-> Min(prev.pushes + Cardinality(StylePushes(out)), 2),
     was |-> was]

\* A refresh_data that tests the configuration first and checks the theme
\* only on the way to a new cycle.
refresh_data_check_if_configured(url, token, theme) ==
    IF ~Configured(url, token)
    THEN /\ status_label' = "Configuration missing"
         /\ ui_out' = <<>>
         /\ UNCHANGED <<current_applied_theme, main_style, last_check,
                        refresh_button, api_worker, workers>>
    ELSE LET chk == check_theme_changes(current_applied_theme, main_style, theme)
         IN  /\ current_applied_theme' = chk.applied
             /\ main_style' = chk.style
             /\ last_check' = CheckRecord(IF theme = FileTheme(config_py)
                                          THEN last_check ELSE NoCheck,
                                          current_applied_theme, chk.out)
             /\ FreeSlots # {}
             /\ LET w == CHOOSE x \in FreeSlots : \A y \in FreeSlots : x <= y
                IN  /\ api_worker' = w
                    /\ workers' = [workers EXCEPT ![w] = FreshWorker(url, token)]
             /\ status_label' = "Refreshing courses..."
             /\ refresh_button' = FALSE
             /\ ui_out' = chk.out \o <<Push("api_worker.start", "")>>

\* A refresh_data that disables the refresh button before it tests the
\* configuration.
refresh_data_disables_first(url, token, theme) ==
    LET chk == check_theme_changes(current_applied_theme, main_style, theme)
    IN  /\ current_applied_theme' = chk.applied
        /\ main_style' = chk.style
        /\ last_check' = CheckRecord(IF theme = FileTheme(config_py)
                                     THEN last_check ELSE NoCheck,
                                     current_applied_theme, chk.out)
        /\ refresh_button' = FALSE
        /\ IF ~Configured(url, token)
           THEN /\ status_label' = "Configuration missing"
                /\ ui_out' = chk.out
                /\ UNCHANGED <<api_worker, workers>>
           ELSE /\ FreeSlots # {}
                /\ LET w == CHOOSE x \in FreeSlots : \A y \in FreeSlots : x <= y
                   IN  /\ api_worker' = w
                       /\ workers' = [workers EXCEPT ![w] = FreshWorker(url, token)]
                /\ status_label' = "Refreshing courses..."
                /\ ui_out' = chk.out \o <<Push("api_worker.start", "")>>

\* CanvasGradeWidget.refresh_data with the widget holding url and token and
\* the store holding theme.  The caller says what becomes of canvas_url,
\* api_token, config_theme and the variables refresh_data does not touch.
refresh_data(url, token, theme) ==
    LET chk == check_theme_changes(current_applied_theme, main_style, theme)
    IN  /\ current_applied_theme' = chk.applied
        /\ main_style' = chk.style
        /\ last_check' = CheckRecord(IF theme = config_theme THEN last_check ELSE NoCheck,
                                     current_applied_theme, chk.out)
        /\ IF ~Configured(url, token)
           THEN /\ status_label' = "Configuration missing"
                /\ ui_out' = chk.out
                /\ UNCHANGED <<refresh_button, api_worker, workers>>
           ELSE /\ FreeSlots # {}
                /\ LET w == CHOOSE x \in FreeSlots : \A y \in FreeSlots : x <= y
                   IN  /\ api_worker' = w
                       /\ workers' = [workers EXCEPT ![w] = FreshWorker(url, token)]
                /\ status_label' = "Refreshing courses..."
                /\ refresh_button' = FALSE
                /\ ui_out' = chk.out \o <<Push("api_worker.start", "")>>

\* refresh_timer.timeout -> refresh_data
TimerTick ==
    /\ EventLoop /\ refresh_timer
    /\ refresh_data(canvas_url, api_token, config_theme)
    /\ UNCHANGED <<canvas_url, api_token, courses, theme_applying, refresh_timer,
                   profile_data, name_label, avatar_label, avatar_requests, config_py, system_theme, config_module, ui_queue, ui_pc,
                   msgbox, dialog, pending, close_log, shown>>

\* refresh_button.clicked -> refresh_data
RefreshClicked ==
    /\ UserInputMain /\ refresh_button
    /\ refresh_data(canvas_url, api_token, config_theme)
    /\ UNCHANGED <<canvas_url, api_token, courses, theme_applying, refresh_timer,
                   profile_data, name_label, avatar_label, avatar_requests, config_py, system_theme, config_module, ui_queue, ui_pc,
                   msgbox, dialog, pending, close_log, shown>>

\* CourseWidget.initUI takes len() of the course name: display_courses
\* raises TypeError on a list with a course whose name is null.
Displayable(list) == \A i \in 1..Len(list) : list[i].name # None

\* CanvasGradeWidget.on_courses_fetched: when display_courses raises, the
\* slot ends there (the exception is printed, the event loop goes on).
on_courses_fetched(ev) ==
    /\ courses' = ev.courses
    /\ ui_out' = <<Push("display_courses", "")>>
    /\ IF Displayable(ev.courses)
       THEN /\ status_label' = "Last updated"
            /\ refresh_button' = TRUE
       ELSE UNCHANGED <<status_label, refresh_button>>
    /\ UNCHANGED <<profile_data, name_label, avatar_label, avatar_requests, shown>>

\* The profiles get_user_profile may return, by name: p3 has no avatar_url.
AllProfiles == {"p1", "p2", "p3"}

ProfileFields(profile) ==
    CASE profile = "p1" -> [name |-> "Ann", avatar_url |-> "avatar1"]
      [] profile = "p2" -> [name |-> "Bob", avatar_url |-> "avatar2"]
      [] profile = "p3" -> [name |-> "Cy", avatar_url |-> ""]

\* The sequence without its i-th element.
Without(seq, i) == SubSeq(seq, 1, i - 1) \o SubSeq(seq, i + 1, Len(seq))

\* ProfileWidget.update_profile with load_avatar: the name is set at once,
\* the avatar is requested from the network or set to the default picture.
update_profile(profile) ==
    LET p == ProfileFields(profile)
    IN  /\ name_label' = p.name
        /\ IF p.avatar_url # ""
           THEN /\ Len(avatar_requests) < MaxAvatars
                /\ avatar_requests' = Append(avatar_requests, p.avatar_url)
                /\ UNCHANGED avatar_label
           ELSE /\ avatar_label' = "default"
                /\ UNCHANGED avatar_requests

\* ProfileWidget.on_image_loaded: network_manager.finished for any of the
\* downloads in flight, with the picture (loaded) or with an error.
on_image_loaded(i, loaded) ==
    /\ EventLoop
    /\ i \in 1..Len(avatar_requests)
    /\ avatar_label' = IF loaded THEN avatar_requests[i] ELSE "default"
    /\ avatar_requests' = Without(avatar_requests, i)
    /\ UNCHANGED <<canvas_url, api_token, courses, theme_applying,
                   current_applied_theme, main_style, status_label,
                   refresh_button, refresh_timer, api_worker, profile_data,
                   name_label, config_py, system_theme, config_module, workers,
                   ui_queue, ui_pc, msgbox, dialog, pending, ui_out, close_log,
                   last_check, shown>>

\* CanvasGradeWidget.on_profile_fetched
on_profile_fetched(ev) ==
    /\ profile_data' = ev.text
    /\ update_profile(ev.text)
    /\ ui_out' = <<>>
    /\ UNCHANGED <<courses, status_label, refresh_button, shown>>

ErrorText(error_message) == "Error: " \o error_message

\* on_error without the re-enabling of the refresh button.
on_error_keeps_disabled(ev) ==
    /\ status_label' = ErrorText(ev.text)
    /\ refresh_button' = refresh_button
    /\ ui_out' = <<>>
    /\ shown' = IF ev.cause \in ListFailures
                THEN [shown EXCEPT ![ev.cause] = ErrorText(ev.text)]
                ELSE shown
    /\ UNCHANGED <<courses, profile_data, name_label, avatar_label, avatar_requests>>

\* on_error that also drops the course list and rebuilds the empty display.
on_error_clears_courses(ev) ==
    /\ status_label' = ErrorText(ev.text)
    /\ refresh_button' = TRUE
    /\ courses' = <<>>
    /\ ui_out' = <<Push("display_courses", "")>>
    /\ shown' = IF ev.cause \in ListFailures
                THEN [shown EXCEPT ![ev.cause] = ErrorText(ev.text)]
                ELSE shown
    /\ UNCHANGED <<profile_data, name_label, avatar_label, avatar_requests>>

\* CanvasGradeWidget.on_error
on_error(ev) ==
    /\ status_label' = ErrorText(ev.text)
    /\ refresh_button' = TRUE
    /\ ui_out' = <<>>
    /\ shown' = IF ev.cause \in ListFailures
                THEN [shown EXCEPT ![ev.cause] = ErrorText(ev.text)]
                ELSE shown
    /\ UNCHANGED <<courses, profile_data, name_label, avatar_label, avatar_requests>>

\* Delivery of the oldest queued signal to its slot.
Deliver ==
    /\ EventLoop /\ ui_queue # <<>>
    /\ LET ev == Head(ui_queue)
       IN  CASE ev.sig = "courses_fetched" -> on_courses_fetched(ev)
             [] ev.sig = "profile_fetched" -> on_profile_fetched(ev)
             [] ev.sig = "error_occurred" -> on_error(ev)
    /\ ui_queue' = Tail(ui_queue)
    /\ UNCHANGED <<canvas_url, api_token, theme_applying, current_applied_theme,
                   main_style, refresh_timer, api_worker, config_py,
                   system_theme, config_module, workers, ui_pc, msgbox, dialog, pending,
                   close_log, last_check>>

\* ---------------------------------------------------------- settings dialog

\* settings_button.clicked -> show_settings_dialog, up to exec():
\* SettingsDialog.__init__ and the preselection of the combo box in initUI.
SettingsClicked ==
    /\ UserInputMain
    /\ LET current_theme == load_theme_config(config_theme)
       IN  dialog' = [open |-> TRUE, original_theme |-> current_theme,
                      combo |-> IF current_theme \in THEMES THEN current_theme
                                ELSE "auto"]
    /\ ui_out' = <<>>
    /\ UNCHANGED <<canvas_url, api_token, courses, theme_applying,
                   current_applied_theme, main_style, status_label,
                   refresh_button, refresh_timer, api_worker, profile_data, name_label, avatar_label, avatar_requests,
                   config_py, system_theme, config_module, workers, ui_queue, ui_pc, msgbox,
                   pending, close_log, last_check, shown>>

\* SettingsDialog.on_theme_changed: the theme is saved at once and the
\* application to the main widget is scheduled with QTimer.singleShot.
on_theme_changed(selected_theme) ==
    /\ UserInputDialog
    /\ selected_theme \in THEMES /\ selected_theme # dialog.combo
    /\ dialog' = [dialog EXCEPT !.combo = selected_theme]
    /\ config_py' = save_theme_config(config_py, selected_theme)
    /\ pending' = pending \cup {"apply_comprehensive_theme_change"}
    /\ last_check' = NoCheck
    /\ ui_out' = <<>>
    /\ UNCHANGED <<canvas_url, api_token, courses, theme_applying,
                   current_applied_theme, main_style, status_label,
                   refresh_button, refresh_timer, api_worker, profile_data, name_label, avatar_label, avatar_requests,
                   system_theme, config_module, workers, ui_queue, ui_pc, msgbox, close_log,
                   shown>>

\* SettingsDialog.save_and_continue followed by the rest of
\* show_settings_dialog (exec() returned Accepted).
SettingsAccepted(url, token) ==
    /\ UserInputDialog
    /\ config_py' = save_config(url, token, dialog.combo)
    /\ canvas_url' = url
    /\ api_token' = token
    /\ dialog' = NoDialog
    /\ pending' = pending \cup {"apply_all_theme_changes"}
    /\ refresh_data(url, token, dialog.combo)
    /\ UNCHANGED <<courses, theme_applying, refresh_timer, profile_data, name_label, avatar_label, avatar_requests,
                   system_theme, config_module, ui_queue, ui_pc, msgbox, close_log, shown>>

\* The Cancel button: QDialog.reject.
SettingsRejected ==
    /\ UserInputDialog
    /\ dialog' = NoDialog
    /\ ui_out' = <<>>
    /\ UNCHANGED <<canvas_url, api_token, courses, theme_applying,
                   current_applied_theme, main_style, status_label,
                   refresh_button, refresh_timer, api_worker, profile_data, name_label, avatar_label, avatar_requests,
                   config_py, system_theme, config_module, workers, ui_queue, ui_pc, msgbox,
                   pending, close_log, last_check, shown>>

\* SettingsDialog.apply_comprehensive_theme_change, fired by its singleShot.
\* The guard's return is inside the try block, so the finally clause runs on
\* the skipped path too.
apply_comprehensive_theme_change ==
    /\ EventLoop /\ "apply_comprehensive_theme_change" \in pending
    /\ pending' = pending \ {"apply_comprehensive_theme_change"}
    /\ IF theme_applying
       THEN /\ ui_out' = <<>>
            /\ UNCHANGED <<current_applied_theme, main_style, status_label>>
       ELSE LET a == apply_theme(current_applied_theme, main_style, config_theme)
            IN  /\ current_applied_theme' = a.applied
                /\ main_style' = a.style
                /\ status_label' = "Theme updated successfully"
                /\ ui_out' = a.out \o <<Push("display_courses", "")>>
    /\ theme_applying' = FALSE
    /\ UNCHANGED <<canvas_url, api_token, courses, refresh_button, refresh_timer,
                   api_worker, profile_data, name_label, avatar_label, avatar_requests, config_py, system_theme, config_module, workers,
                   ui_queue, ui_pc, msgbox, dialog, close_log, last_check, shown>>

\* SettingsDialog.apply_all_theme_changes, fired by its singleShot.  raises:
\* one of the steps after main_widget.apply_theme() raises (CourseWidget on
\* a course whose name is null, a Qt call on a deleted object); the except
\* clause then opens a QMessageBox, whose event loop runs with theme_applying
\* still True, and the finally clause runs when the box is dismissed.
apply_all_theme_changes(raises) ==
    /\ EventLoop /\ "apply_all_theme_changes" \in pending
    /\ pending' = pending \ {"apply_all_theme_changes"}
    /\ IF theme_applying
       THEN /\ ~raises
            /\ ui_out' = <<>>
            /\ UNCHANGED <<theme_applying, current_applied_theme, main_style,
                           status_label, msgbox>>
       ELSE LET a == apply_theme(current_applied_theme, main_style, config_theme)
            IN  /\ current_applied_theme' = a.applied
                /\ main_style' = a.style
                /\ IF raises
                   THEN /\ msgbox < MaxMsgBox
                        /\ msgbox' = msgbox + 1
                        /\ theme_applying' = TRUE
                        /\ ui_out' = a.out
                        /\ UNCHANGED status_label
                   ELSE /\ theme_applying' = FALSE
                        /\ status_label' = "Theme updated successfully"
                        /\ ui_out' = a.out \o
                              <<Push("display_courses", ""),
                                Push("refresh_button.setStyleSheet",
                                     get_theme_styles(load_theme_config(config_theme)))>>
                        /\ UNCHANGED msgbox
    /\ UNCHANGED <<canvas_url, api_token, courses, refresh_button, refresh_timer,
                   api_worker, profile_data, name_label, avatar_label, avatar_requests, config_py, system_theme, config_module, workers,
                   ui_queue, ui_pc, dialog, close_log, last_check, shown>>

\* MsgBoxDismissed for an apply_all_theme_changes without finally clause.
MsgBoxDismissed_no_finally ==
    /\ ui_pc = "loop" /\ msgbox > 0
    /\ msgbox' = msgbox - 1
    /\ ui_out' = <<>>
    /\ UNCHANGED <<canvas_url, api_token, courses, theme_applying,
                   current_applied_theme, main_style, status_label,
                   refresh_button, refresh_timer, api_worker, profile_data,
                   name_label, avatar_label, avatar_requests, config_py,
                   system_theme, config_module, workers, ui_queue, ui_pc,
                   dialog, pending, close_log, last_check, shown>>

\* The QMessageBox of apply_all_theme_changes is dismissed: its finally
\* clause resets the flag.
MsgBoxDismissed ==
    /\ ui_pc = "loop" /\ msgbox > 0
    /\ msgbox' = msgbox - 1
    /\ theme_applying' = FALSE
    /\ ui_out' = <<>>
    /\ UNCHANGED <<canvas_url, api_token, courses, current_applied_theme,
                   main_style, status_label, refresh_button, refresh_timer,
                   api_worker, profile_data, name_label, avatar_label, avatar_requests, config_py, system_theme, config_module, workers,
                   ui_queue, ui_pc, dialog, pending, close_log, last_check, shown>>

\* config.py is edited outside the program: its THEME line is set to theme,
\* or removed.
ExternalThemeEdit(theme) ==
    /\ Alive
    /\ theme \in ThemeIds \cup {None} /\ theme # config_theme
    /\ config_py' = IF theme = None
                    THEN NoThemeFile(Imported(config_py, "CANVAS_BASE_URL"),
                                     Imported(config_py, "API_TOKEN"))
                    ELSE save_config(Imported(config_py, "CANVAS_BASE_URL"),
                                     Imported(config_py, "API_TOKEN"), theme)
    /\ last_check' = NoCheck
    /\ UNCHANGED <<canvas_url, api_token, courses, theme_applying,
                   current_applied_theme, main_style, status_label,
                   refresh_button, refresh_timer, api_worker, profile_data, name_label, avatar_label, avatar_requests,
                   system_theme, config_module, workers, ui_queue, ui_pc, msgbox, dialog,
                   pending, ui_out, close_log, shown>>

\* --------------------------------------------------------------- closeEvent

ClosePcs == {"close_isrunning", "close_stop", "close_wait", "close_recheck",
             "close_finish"}

closeUnchanged == <<canvas_url, api_token, courses, theme_applying,
                    current_applied_theme, main_style, status_label,
                    refresh_button, api_worker, profile_data, name_label, avatar_label, avatar_requests, config_py,
                    system_theme, config_module, ui_queue, msgbox, dialog, pending, ui_out,
                    last_check, shown>>

\* closeEvent, lines 1570-1572: the refresh timer is stopped.
CloseStopTimer ==
    /\ UserInputMain
    /\ refresh_timer' = FALSE
    /\ close_log' = Append(close_log, "refresh_timer.stop")
    /\ ui_pc' = "close_isrunning"
    /\ UNCHANGED <<closeUnchanged, workers>>

\* closeEvent, line 1575: is there a worker, and is it running?
CloseIsRunning ==
    /\ ui_pc = "close_isrunning"
    /\ ui_pc' = IF api_worker # 0 /\ isRunning(api_worker)
                THEN "close_stop" ELSE "close_finish"
    /\ UNCHANGED <<closeUnchanged, refresh_timer, close_log, workers>>

\* The worker is between the return of get_canvas_courses and the
\* completion of its last grade call.
InGrades(rec) ==
    /\ rec.pc \in {"after_courses", "loop", "in_grade"}
    /\ rec.courses_ok /\ rec.idx <= Len(rec.courses)

\* CanvasAPIWorker.stop
stop(w) ==
    workers' = [workers EXCEPT ![w] =
        [@ EXCEPT !.stop = TRUE,
                  !.stop_in_grades = @ \/ (~workers[w].stop /\ InGrades(workers[w]))]]

\* closeEvent, lines 1577-1578: stop(), quit().
CloseStop ==
    /\ ui_pc = "close_stop"
    /\ stop(api_worker)
    /\ close_log' = Append(close_log, "stop")
    /\ ui_pc' = "close_wait"
    /\ UNCHANGED <<closeUnchanged, refresh_timer>>

\* A wait without timeout: it returns only when the thread has finished.
CloseWait_unbounded ==
    /\ ui_pc = "close_wait"
    /\ ~isRunning(api_worker)
    /\ close_log' = Append(close_log, "wait")
    /\ ui_pc' = "close_recheck"
    /\ UNCHANGED <<closeUnchanged, refresh_timer, workers>>

\* closeEvent, line 1580: wait(3000) returns when the thread has finished
\* or when the grace period is over, whichever comes first.
CloseWait ==
    /\ ui_pc = "close_wait"
    /\ close_log' = Append(close_log, "wait")
    /\ ui_pc' = "close_recheck"
    /\ UNCHANGED <<closeUnchanged, refresh_timer, workers>>

\* terminate() without the isRunning() test.
CloseRecheck_always ==
    /\ ui_pc = "close_recheck"
    /\ workers' = [workers EXCEPT ![api_worker] = NoWorker]
    /\ close_log' = Append(close_log, "terminate")
    /\ ui_pc' = "close_finish"
    /\ UNCHANGED <<closeUnchanged, refresh_timer>>

\* closeEvent, lines 1581-1585: terminate() if the thread is still running.
CloseRecheck ==
    /\ ui_pc = "close_recheck"
    /\ IF isRunning(api_worker)
       THEN /\ workers' = [workers EXCEPT ![api_worker] = NoWorker]
            /\ close_log' = Append(close_log, "terminate")
       ELSE UNCHANGED <<workers, close_log>>
    /\ ui_pc' = "close_finish"
    /\ UNCHANGED <<closeUnchanged, refresh_timer>>

\* closeEvent, lines 1587-1611: event.accept(), app.quit(), sys.exit(0).
CloseFinish ==
    /\ ui_pc = "close_finish"
    /\ close_log' = close_log \o <<"accept", "quit">>
    /\ ui_pc' = "exited"
    /\ UNCHANGED <<closeUnchanged, refresh_timer, workers>>

\* ------------------------------------------------------------ specification

\* The files config.py may hold at startup: those save_config writes, and
\* the same without THEME entry.
StoreFiles ==
    {save_config(u, k, t) : u \in Urls, k \in Tokens, t \in ThemeIds}
        \cup {NoThemeFile(u, k) : u \in Urls, k \in Tokens}

\* The state when CanvasGradeWidget.__init__ returns: apply_theme() from
\* current_applied_theme = None, the timer started, refresh_data() called.
InitFrom(files) ==
    /\ config_py \in files
    /\ config_module = Imported(config_py, "THEME")
    /\ canvas_url = Imported(config_py, "CANVAS_BASE_URL")
    /\ api_token = Imported(config_py, "API_TOKEN")
    /\ system_theme \in {"light", "dark"}
    /\ courses = <<>>
    /\ theme_applying = FALSE
    /\ current_applied_theme = load_theme_config(config_theme)
    /\ main_style = get_theme_styles(load_theme_config(config_theme))
    /\ refresh_timer = TRUE
    /\ profile_data = None
    /\ name_label = "Loading..."
    /\ avatar_label = "default"
    /\ avatar_requests = <<>>
    /\ ui_queue = <<>>
    /\ ui_pc = "loop"
    /\ msgbox = 0
    /\ dialog = NoDialog
    /\ pending = {}
    /\ close_log = <<>>
    /\ last_check = CheckRecord(NoCheck, load_theme_config(config_theme), <<>>)
    /\ shown = [cause \in ListFailures |-> ""]
    /\ IF Configured(canvas_url, api_token)
       THEN /\ status_label = "Refreshing courses..."
            /\ refresh_button = FALSE
            /\ api_worker = 1
            /\ workers = [w \in WorkerIds |->
                            IF w = 1 THEN FreshWorker(canvas_url, api_token)
                            ELSE NoWorker]
            /\ ui_out = <<Push("api_worker.start", "")>>
       ELSE /\ status_label = "Configuration missing"
            /\ refresh_button = TRUE
            /\ api_worker = 0
            /\ workers = [w \in WorkerIds |-> NoWorker]
            /\ ui_out = <<>>

Init == InitFrom(StoreFiles)

\* The steps of the workers, against a server whose answers are drawn from
\* profiles (or None), lists (or a failure of failures) and grades (or None).
WorkerNext(profiles, lists, failures, grades) ==
    \E w \in WorkerIds :
        \/ WorkerStart(w)
        \/ \E resp \in profiles \cup {None} : ProfileReturn(w, resp)
        \/ AfterProfile(w)
        \/ \E list \in lists : CoursesReturn(w, "ok", list)
        \/ \E status \in failures : CoursesReturn(w, status, <<>>)
        \/ AfterCourses(w)
        \/ LoopStep(w)
        \/ \E resp \in grades \cup {None} : GradeReturn(w, resp)

CloseNext ==
    \/ CloseIsRunning
    \/ CloseStop
    \/ CloseWait
    \/ CloseRecheck
    \/ CloseFinish

\* The whole program.
Next ==
    \/ WorkerNext(Profiles, CourseLists, ListFailures, GradeInfos)
    \/ TimerTick
    \/ RefreshClicked
    \/ Deliver
    \/ SettingsClicked
    \/ \E t \in THEMES : on_theme_changed(t)
    \/ \E url \in Urls, token \in Tokens : SettingsAccepted(url, token)
    \/ SettingsRejected
    \/ apply_comprehensive_theme_change
    \/ \E raises \in BOOLEAN : apply_all_theme_changes(raises)
    \/ MsgBoxDismissed
    \/ \E t \in ThemeIds \cup {None} : ExternalThemeEdit(t)
    \/ \E i \in 1..MaxAvatars, loaded \in BOOLEAN : on_image_loaded(i, loaded)
    \/ CloseStopTimer
    \/ CloseNext

Spec == Init /\ [][Next]_vars

(***************************************************************************)
(* The worker threads and the theme state do not interfere: no worker step *)
(* reads or writes a theme variable, and the theme check of refresh_data   *)
(* reads no worker state.  The claims are therefore checked under three    *)
(* specifications, each the program restricted to one part of its          *)
(* environment, which keeps the state spaces small enough to explore.     *)
(***************************************************************************)

\* One refresh cycle in full detail: the widget is configured, the worker
\* started by __init__ runs against every server answer, its signals are
\* delivered, and the widget may be closed at any moment.
InitCycle ==
    /\ Init
    /\ config_py = save_config("url1", "tok", "light") /\ system_theme = "light"

NextCycle ==
    \/ WorkerNext(Profiles, CourseLists, ListFailures, GradeInfos)
    \/ Deliver
    \/ CloseStopTimer
    \/ CloseNext

SpecCycle == InitCycle /\ [][NextCycle]_vars

\* The scheduler: every trigger of refresh_data, overlapping workers, the
\* delivery of their signals and closeEvent; the server returns short lists.
SchedLists ==
    {l \in RawLists(MinCourses) :
        Len(l) > 0 /\ \A i \in 1..Len(l) : l[i].id # 0 /\ l[i].name # None}

InitSched ==
    /\ Init
    /\ config_py = save_config("url1", "tok", "light") /\ system_theme = "light"

NextSched ==
    \/ WorkerNext({}, SchedLists, {"timeout"}, {})
    \/ TimerTick
    \/ RefreshClicked
    \/ Deliver
    \/ SettingsClicked
    \/ SettingsAccepted("url1", "tok")
    \/ SettingsRejected
    \/ CloseStopTimer
    \/ CloseNext

SpecSched == InitSched /\ [][NextSched]_vars

\* Theme synchronisation: the data refresh is unconfigured (empty token), so
\* that every refresh_data runs its theme check and starts no worker.
InitTheme ==
    /\ Init
    /\ config_py \in {save_config("url1", "", "nord"), NoThemeFile("url1", "")}

NextTheme ==
    \/ TimerTick
    \/ RefreshClicked
    \/ SettingsClicked
    \/ \E t \in THEMES : on_theme_changed(t)
    \/ \E url \in Urls : SettingsAccepted(url, "")
    \/ SettingsRejected
    \/ apply_comprehensive_theme_change
    \/ \E raises \in BOOLEAN : apply_all_theme_changes(raises)
    \/ MsgBoxDismissed
    \/ \E t \in ThemeIds \cup {None} : ExternalThemeEdit(t)

SpecTheme == InitTheme /\ [][NextTheme]_vars

\* Failed cycles: the course-list call of every cycle fails, with HTTP 401 or
\* with a timeout, and the refresh is triggered again by the button or the
\* timer.
InitRetry ==
    /\ Init
    /\ config_py = save_config("url1", "tok", "light") /\ system_theme = "light"

WorkerRetry ==
    \E w \in WorkerIds :
        \/ WorkerStart(w)
        \/ ProfileReturn(w, None)
        \/ AfterProfile(w)
        \/ \E status \in ListFailures : CoursesReturn(w, status, <<>>)
        \/ AfterCourses(w)

NextRetry ==
    \/ WorkerRetry
    \/ TimerTick
    \/ RefreshClicked
    \/ Deliver
    \/ CloseStopTimer
    \/ CloseNext

SpecRetry == InitRetry /\ [][NextRetry]_vars

\* The store: config.py is one of several files a user may have written
\* (THEME commented out, set without spaces, set twice, set first, not set);
\* the theme is changed in the settings dialog while cycles, started at
\* startup and by the refresh button, run and fail.
StoreThemeLines ==
    { <<>>,
      <<ThemeLine("light")>>,
      <<Line("# ", "THEME", " = ", "dark")>>,
      <<Line("# ", "THEME", " = ", "dark"), ThemeLine("light")>>,
      <<Line("", "THEME", "=", "nord")>>,
      <<ThemeLine("light"), ThemeLine("dark")>> }

UserFiles ==
    { <<Comment, Line("", "CANVAS_BASE_URL", " = ", "url1"),
        Line("", "API_TOKEN", " = ", "tok")>> \o lines \o <<Blank>> :
            lines \in StoreThemeLines }
        \cup { <<ThemeLine("dark"), Line("", "API_TOKEN", " = ", "tok"),
                 Line("", "CANVAS_BASE_URL", " = ", "url1"), Blank>> }

InitStore ==
    /\ InitFrom(UserFiles)
    /\ system_theme = "light"

\* The replies of Canvas here: no profile, and the course-list call times out.
WorkerStore ==
    \E w \in WorkerIds :
        \/ WorkerStart(w)
        \/ ProfileReturn(w, None)
        \/ AfterProfile(w)
        \/ CoursesReturn(w, "timeout", <<>>)
        \/ AfterCourses(w)

NextStore ==
    \/ WorkerStore
    \/ RefreshClicked
    \/ Deliver
    \/ SettingsClicked
    \/ \E t \in THEMES : on_theme_changed(t)
    \/ SettingsRejected
    \/ apply_comprehensive_theme_change

SpecStore == InitStore /\ [][NextStore]_vars

\* Theme drift: config.py is edited from outside between the triggers of
\* refresh_data, on a widget that is configured or not (empty token) and
\* whose configuration the settings dialog changes.
InitDrift ==
    /\ InitFrom({save_config("url1", token, "light") : token \in Tokens})
    /\ system_theme = "light"

NextDrift ==
    \/ WorkerStore
    \/ TimerTick
    \/ RefreshClicked
    \/ Deliver
    \/ ExternalThemeEdit("dark")
    \/ SettingsClicked
    \/ \E token \in Tokens : SettingsAccepted("url1", token)
    \/ SettingsRejected
    \/ apply_all_theme_changes(FALSE)

SpecDrift == InitDrift /\ [][NextDrift]_vars

\* Grades: cycles over well-formed lists of one or two courses whose grade
\* calls return every kind of grade dictionary, or fail.
GradeLists ==
    {l \in RawLists(MinCourses + 1) :
        Len(l) > 0 /\ \A i \in 1..Len(l) : l[i].id # 0 /\ l[i].name # None}

InitGrades ==
    /\ Init
    /\ config_py = save_config("url1", "tok", "light") /\ system_theme = "light"

NextGrades ==
    \/ WorkerNext({}, GradeLists, {"timeout"}, AllGradeInfos)
    \/ Deliver

SpecGrades == InitGrades /\ [][NextGrades]_vars

\* The profile: one cycle after the other, started at startup and by the
\* refresh button, each fetching one of the profiles (the course-list call
\* times out); the avatar downloads complete in any order.
InitProfile ==
    /\ Init
    /\ config_py = save_config("url1", "tok", "light") /\ system_theme = "light"

WorkerProfile ==
    \E w \in WorkerIds :
        \/ WorkerStart(w)
        \/ \E resp \in AllProfiles \cup {None} : ProfileReturn(w, resp)
        \/ AfterProfile(w)
        \/ CoursesReturn(w, "timeout", <<>>)
        \/ AfterCourses(w)

NextProfile ==
    \/ WorkerProfile
    \/ RefreshClicked
    \/ Deliver
    \/ \E i \in 1..MaxAvatars, loaded \in BOOLEAN : on_image_loaded(i, loaded)

SpecProfile == InitProfile /\ [][NextProfile]_vars

\* Two Canvas sites: every call succeeds, and what a worker receives depends
\* on the canvas_url it was constructed with.  The settings dialog switches
\* to the second site while cycles are in flight.
ProfileAt(url) == IF url = "url1" THEN "p1" ELSE "p2"

CoursesAt(url) ==
    IF url = "url1" THEN <<RawCourse(1, TRUE, "n")>>
    ELSE <<RawCourse(1, TRUE, "n"), RawCourse(2, TRUE, "n")>>

InitSites ==
    /\ Init
    /\ config_py = save_config("url1", "tok", "light") /\ system_theme = "light"

WorkerSites ==
    \E w \in WorkerIds :
        \/ WorkerStart(w)
        \/ ProfileReturn(w, ProfileAt(workers[w].canvas_url))
        \/ AfterProfile(w)
        \/ CoursesReturn(w, "ok", CoursesAt(workers[w].canvas_url))
        \/ AfterCourses(w)
        \/ LoopStep(w)
        \/ GradeReturn(w, "cur")

NextSites ==
    \/ WorkerSites
    \/ Deliver
    \/ SettingsClicked
    \/ SettingsAccepted("url2", "tok")
    \/ \E i \in 1..MaxAvatars : on_image_loaded(i, TRUE)

SpecSites == InitSites /\ [][NextSites]_vars

\* closeEvent is straight-line code on the UI thread: once entered, each of
\* its steps is taken (QThread.wait returns when its timeout expires).
FairCycle == SpecCycle /\ WF_vars(CloseNext)

\* ------------------------------------------------------------------ claims

Running == {w \in WorkerIds : isRunning(w)}

\* The signal a step has put on the queue, if any.
Emitted(sig) ==
    /\ Len(ui_queue') = Len(ui_queue) + 1
    /\ ui_queue'[Len(ui_queue')].sig = sig

\* A step of the pure refresh triggers (timer tick, refresh button).
CheckStep == TimerTick \/ RefreshClicked

\* C1: at most one CanvasAPIWorker is running at any time; a timer tick, a
\* click or a settings acceptance that arrives while an earlier worker has
\* not finished starts no second worker.
C1_AtMostOneWorkerRunning == Cardinality(Running) <= 1

\* C2: of two consecutive check_theme_changes calls with no change of the
\* configured theme between them, the first sets a style sheet exactly once
\* when the configured theme differs from current_applied_theme and not at
\* all when they are equal; the second sets no style sheet and rebuilds no
\* course widget, so that both together set at most one.
C2_SecondCheckPushesNothing ==
    [][CheckStep =>
         LET k == Cardinality(StylePushes(ui_out'))
         IN  /\ k = IF load_theme_config(config_theme) # current_applied_theme
                    THEN 1 ELSE 0
             /\ last_check.n >= 1 =>
                    /\ k = 0
                    /\ Rebuilds(ui_out') = {}
                    /\ last_check.pushes + k <= 1
                    /\ last_check'.pushes <= 1]_vars

\* C2 witness: two checks in a row without a change of the store, the first
\* of which set the style sheet.
C2_Witness ==
    /\ last_check.n = 2 /\ last_check.pushes = 1
    /\ ui_out = <<>>

\* The theme an identifier of the store resolves to: the theme itself when
\* it is a concrete theme, the host appearance for 'auto', 'light' otherwise.
Resolved(id) ==
    CASE id \in {"light", "dark", "nord"} -> id
      [] id = "auto" -> system_theme
      [] OTHER -> "light"

\* C3: after a check_theme_changes call current_applied_theme is the
\* identifier read from the store, and every style sheet the call set is the
\* payload of the theme that identifier resolves to; with 'dark' configured
\* and 'light' applied the call sets the dark payload exactly once.
C3_CheckAppliesConfigured ==
    [][CheckStep =>
         LET id == load_theme_config(config_theme')
             pushed == StylePushes(ui_out')
         IN  /\ current_applied_theme' = id
             /\ \A i \in pushed : ui_out'[i].arg = Resolved(id)
             /\ main_style' = IF pushed = {} THEN main_style ELSE Resolved(id)
             /\ (config_theme = "dark" /\ current_applied_theme = "light") =>
                    /\ Cardinality(pushed) = 1
                    /\ \A i \in pushed : ui_out'[i].arg = "dark"
                    /\ current_applied_theme' = "dark"]_vars

\* C3 witness: a check that started from 'light' with 'dark' configured has
\* set the dark payload.
C3_Witness ==
    /\ last_check.was = "light" /\ config_theme = "dark"
    /\ current_applied_theme = "dark" /\ main_style = "dark"
    /\ ui_out = <<Push("setStyleSheet", "dark"), Push("display_courses", "")>>

\* C4: while theme_applying is True a theme check reached through
\* refresh_data sets no style sheet, rebuilds no course widget and leaves
\* current_applied_theme unchanged.
C4_CheckIgnoredWhileApplying ==
    [][(theme_applying /\ CheckStep) =>
         /\ StylePushes(ui_out') = {}
         /\ Rebuilds(ui_out') = {}
         /\ current_applied_theme' = current_applied_theme]_vars

\* C5: a worker on which stop() was called after get_canvas_courses returned
\* and before its last grade call completed emits no courses_fetched.
C5_NoCoursesFetchedAfterStop ==
    [][(\E w \in WorkerIds : /\ isRunning(w) /\ workers[w].stop_in_grades
                              /\ workers'[w] # workers[w])
          => ~Emitted("courses_fetched")]_vars

GradeCalls(rec) == {i \in 1..Len(rec.log) : rec.log[i].call = "grade"}
FailedGradeCalls(rec) == {i \in GradeCalls(rec) : rec.log[i].resp = None}
LogHas(rec, call, resps) ==
    \E i \in 1..Len(rec.log) : rec.log[i].call = call /\ rec.log[i].resp \in resps

\* The response of the grade call made for course id, as logged.
GradeOf(rec, id) ==
    rec.log[CHOOSE i \in GradeCalls(rec) : rec.log[i].arg = id].resp

\* All grade calls of the list were made and exactly one of them failed.
OneGradeFailed(rec) ==
    /\ rec.courses_ok /\ Len(rec.courses) > 0
    /\ Cardinality(GradeCalls(rec)) = Len(rec.courses)
    /\ Cardinality(FailedGradeCalls(rec)) = 1

\* C6: a failed grade call neither ends the cycle nor emits an event, and a
\* cycle over N courses in which exactly one grade call failed ends by
\* emitting courses_fetched with all N courses, each carrying what its grade
\* call returned (None for the failed one), and emits no error_occurred.
C6_FailedGradeDegradesCourse ==
    [][\A w \in WorkerIds :
         LET rec == workers[w]
             new == workers'[w]
         IN  /\ (isRunning(w) /\ ~rec.stop /\ ~new.stop
                  /\ rec.pc = "in_grade" /\ new.pc # "in_grade") =>
                    /\ new.st = "running" /\ new.pc = "loop"
                    /\ ui_queue' = ui_queue
                    /\ new.idx = rec.idx + 1
                    /\ new.courses[rec.idx].grade_info \in GradeInfos \cup {None}
             /\ (isRunning(w) /\ ~rec.stop /\ ~new.stop /\ new # rec /\ OneGradeFailed(rec)) =>
                    /\ Emitted("courses_fetched")
                    /\ LET ev == ui_queue'[Len(ui_queue')]
                       IN  /\ Len(ev.courses) = Len(rec.courses)
                           /\ \A i \in 1..Len(ev.courses) :
                                 /\ ev.courses[i].id = rec.courses[i].id
                                 /\ ev.courses[i].grade_info = GradeOf(rec, ev.courses[i].id)
                           /\ Cardinality({i \in 1..Len(ev.courses) :
                                  ev.courses[i].grade_info = None}) = 1
                           /\ Cardinality({i \in 1..Len(ev.courses) :
                                  ev.courses[i].grade_info \in GradeInfos})
                                = Len(rec.courses) - 1
                    /\ new.st = "stopped"]_vars

\* C6 witness: a courses_fetched signal with two fetched grades and one
\* unavailable, after the profile of the cycle was shown.
C6_Witness ==
    /\ profile_data # None
    /\ \E k \in 1..Len(ui_queue) :
         /\ ui_queue[k].sig = "courses_fetched"
         /\ Len(ui_queue[k].courses) = MaxCourses
         /\ Cardinality({i \in 1..MaxCourses : ui_queue[k].courses[i].grade_info = None}) = 1
         /\ Cardinality({i \in 1..MaxCourses :
                ui_queue[k].courses[i].grade_info \in GradeInfos}) = MaxCourses - 1

\* C7: the status text on_error shows for a course-list call that failed
\* with HTTP 401 differs from the one it shows for a call that timed out.
C7_AuthTextDiffersFromTransportText ==
    (shown["http401"] # "" /\ shown["timeout"] # "")
        => shown["http401"] # shown["timeout"]

\* C8: a failed profile call emits nothing and is followed by the
\* course-list call; a cycle whose course-list call failed after a
\* successful profile call has emitted profile_fetched; and the cycle with a
\* failed profile, three courses and one failed grade call emits three
\* courses, two with grade info and one without, and no profile_fetched.
C8_ProfileAndCoursesIndependent ==
    /\ [](\A w \in WorkerIds :
            (/\ isRunning(w) /\ ~workers[w].stop
             /\ LogHas(workers[w], "profile", Profiles)
             /\ LogHas(workers[w], "courses", ListFailures))
                => LogHas(workers[w], "emit", {"profile_fetched"}))
    /\ [][\A w \in WorkerIds :
            LET rec == workers[w]
                new == workers'[w]
            IN  /\ (isRunning(w) /\ ~rec.stop /\ ~new.stop /\ rec.profile = None
                     /\ rec.pc = "after_profile" /\ new.pc # "after_profile") =>
                       /\ new.st = "running" /\ new.pc = "in_courses"
                       /\ ui_queue' = ui_queue
                /\ (isRunning(w) /\ ~rec.stop /\ ~new.stop /\ new # rec /\ OneGradeFailed(rec)
                     /\ Len(rec.courses) = 3 /\ LogHas(rec, "profile", {None})) =>
                       /\ Emitted("courses_fetched")
                       /\ ~LogHas(rec, "emit", {"profile_fetched"})
                       /\ LET list == ui_queue'[Len(ui_queue')].courses
                          IN  /\ Len(list) = 3
                              /\ Cardinality({i \in 1..3 : list[i].grade_info \in GradeInfos}) = 2
                              /\ Cardinality({i \in 1..3 : list[i].grade_info = None}) = 1]_vars

\* C8 witness: the snapshot of three courses, one of them without grade
\* info, is queued and no profile was emitted in the cycle.
C8_Witness ==
    /\ profile_data = None
    /\ \A k \in 1..Len(ui_queue) : ui_queue[k].sig # "profile_fetched"
    /\ \E k \in 1..Len(ui_queue) :
         /\ ui_queue[k].sig = "courses_fetched"
         /\ Len(ui_queue[k].courses) = 3
         /\ Cardinality({i \in 1..3 : ui_queue[k].courses[i].grade_info = None}) = 1

\* C9: once closeEvent has started it runs to its end (event accepted,
\* application told to quit), whatever the worker does.
C9_CloseEventCompletes == (ui_pc \in ClosePcs) ~> (ui_pc = "exited")

\* C9 witness: closeEvent has completed although the worker was still
\* running when the wait ended.
C9_Witness ==
    /\ ui_pc = "exited"
    /\ close_log = <<"refresh_timer.stop", "stop", "wait", "terminate", "accept", "quit">>

IsPrefix(s, t) == Len(s) <= Len(t) /\ \A i \in 1..Len(s) : s[i] = t[i]

CloseOrders ==
    {<<"refresh_timer.stop", "accept", "quit">>,
     <<"refresh_timer.stop", "stop", "wait", "accept", "quit">>,
     <<"refresh_timer.stop", "stop", "wait", "terminate", "accept", "quit">>}

\* C10: closeEvent stops the refresh timer first, after which no tick can
\* fire, then calls stop(), then waits, and calls terminate() after the wait
\* exactly when the worker is still running.
C10_ShutdownOrder ==
    /\ [](/\ \E order \in CloseOrders : IsPrefix(close_log, order)
          /\ close_log # <<>> => (~refresh_timer /\ ~ENABLED TimerTick))
    /\ [][(ui_pc = "close_recheck" /\ ui_pc' # "close_recheck") =>
            /\ isRunning(api_worker) =>
                  close_log' = Append(close_log, "terminate")
            /\ ~isRunning(api_worker) =>
                  /\ close_log' = close_log
                  /\ workers' = workers]_vars

\* C10 witness: the worker stopped within the grace period and closeEvent
\* completed without terminate().
C10_Witness ==
    /\ ui_pc = "exited"
    /\ close_log = <<"refresh_timer.stop", "stop", "wait", "accept", "quit">>

NetworkPcs == {"in_profile", "in_courses", "in_grade"}

\* C11: a worker on which stop() has been called starts no further network
\* call (profile, course list or grade).
C11_NoCallAfterStop ==
    [][\A w \in WorkerIds :
         (isRunning(w) /\ workers[w].stop /\ workers'[w].pc \in NetworkPcs)
            => workers'[w].pc = workers[w].pc]_vars

\* A step of a handler that calls refresh_data.
RefreshDataStep ==
    \/ CheckStep
    \/ \E url \in Urls, token \in Tokens : SettingsAccepted(url, token)

\* The delivery of an error_occurred signal to on_error.
ErrorDelivered ==
    /\ ui_queue # <<>> /\ Head(ui_queue).sig = "error_occurred"
    /\ ui_queue' = Tail(ui_queue)

\* C12: on_error shows the failure reason in the status text, re-enables
\* the refresh button and starts no worker; a worker is started only by a
\* step that calls refresh_data, one worker at most per call.
C12_FailureForwardedNoRetry ==
    [][/\ ErrorDelivered =>
            /\ status_label' = "Error: " \o Head(ui_queue).text
            /\ refresh_button'
            /\ workers' = workers /\ api_worker' = api_worker
       /\ (Running' \ Running # {}) =>
            /\ RefreshDataStep
            /\ Cardinality(Running' \ Running) = 1]_vars

\* C12 witness: a failed cycle has been reported and no worker is running.
C12_Witness ==
    /\ status_label = "Error: Failed to fetch courses" /\ refresh_button
    /\ Running = {} /\ ui_queue = <<>>
    /\ ui_pc = "loop"

\* One refresh cycle with progress: every network call returns (or times
\* out), the worker thread is scheduled, and the event loop delivers queued
\* signals.
LiveCycle ==
    /\ SpecCycle
    /\ WF_vars(WorkerNext(Profiles, CourseLists, ListFailures, GradeInfos))
    /\ WF_vars(Deliver)

C15_FailuresAreDelivered ==
    [][\A w \in WorkerIds :
         LET rec == workers[w]
             new == workers'[w]
         IN  /\ (isRunning(w) /\ ~rec.stop /\ ~new.stop /\ new.st = "stopped") =>
                    \/ Emitted("courses_fetched")
                    \/ /\ Emitted("error_occurred")
                       /\ ui_queue'[Len(ui_queue')].text # ""
             /\ (isRunning(w) /\ ~rec.stop /\ ~new.stop /\ new # rec
                  /\ rec.pc = "loop" /\ rec.idx <= Len(rec.courses)
                  /\ rec.courses[rec.idx].id = 0) =>
                    /\ Emitted("error_occurred")
                    /\ ui_queue'[Len(ui_queue')].text = "Error: 'id'"
                    /\ new.st = "stopped"]_vars

\* C15 witness: the KeyError of a course without id is on its way to the UI
\* thread as an error_occurred signal.
C15_Witness ==
    \E k \in 1..Len(ui_queue) :
        ui_queue[k].sig = "error_occurred" /\ ui_queue[k].text = "Error: 'id'"

WellFormed(list) == \A i \in 1..Len(list) : list[i].id # 0

\* C16: a cycle that is not cancelled and whose course-list call succeeded,
\* with any number of well-formed courses including none, emits no
\* error_occurred.
C16_FailedOnlyIfListCallFails ==
    [][\A w \in WorkerIds :
         (/\ isRunning(w) /\ ~workers[w].stop /\ ~workers'[w].stop
          /\ LogHas(workers[w], "courses", {"ok"})
          /\ WellFormed(workers[w].courses)
          /\ workers'[w] # workers[w])
            => ~Emitted("error_occurred")]_vars

\* The calls a worker has made so far, without the emissions.
CallsOf(rec) == SelectSeq(rec.log, LAMBDA c : c.call # "emit")

\* The calls of a cycle in the order of run: profile, course list, then the
\* grade call of each course up to (not including) position idx.
RECURSIVE GradeCallNames(_, _)
GradeCallNames(list, n) ==
    IF n = 0 THEN <<>>
    ELSE Append(GradeCallNames(list, n - 1), <<"grade", list[n].id>>)

CallNames(calls) == [i \in 1..Len(calls) |-> <<calls[i].call, calls[i].arg>>]

\* C17: the calls of a cycle are made one at a time in the order profile,
\* course list, one grade call per course in list order, each after the
\* previous one returned, and courses_fetched is emitted only when the grade
\* call of every course has returned.
C17_CallsInOrder ==
    /\ [](\A w \in WorkerIds : isRunning(w) =>
            LET rec == workers[w]
                made == CallNames(CallsOf(rec))
                returned ==
                    CASE rec.pc \in {"start", "in_profile"} -> <<>>
                      [] rec.pc \in {"after_profile", "in_courses"} -> <<<<"profile", 0>>>>
                      [] rec.pc = "after_courses" -> <<<<"profile", 0>>, <<"courses", 0>>>>
                      [] OTHER -> <<<<"profile", 0>>, <<"courses", 0>>>>
                                    \o GradeCallNames(rec.courses, rec.idx - 1)
            IN  /\ made = returned
                /\ rec.pc = "in_grade" => rec.idx <= Len(rec.courses))
    /\ [][Emitted("courses_fetched") =>
            \E w \in WorkerIds :
                /\ isRunning(w) /\ workers'[w].st = "stopped"
                /\ workers[w].pc = "loop"
                /\ CallNames(CallsOf(workers[w])) =
                      <<<<"profile", 0>>, <<"courses", 0>>>>
                        \o GradeCallNames(workers[w].courses, Len(workers[w].courses))
                /\ \A i \in 1..Len(workers[w].courses) :
                      workers[w].courses[i].grade_info # "absent"]_vars

\* C17 witness: the three grade calls of a three-course list have returned,
\* in list order, and run is about to emit courses_fetched.
C17_Witness ==
    \E w \in WorkerIds :
        /\ isRunning(w) /\ workers[w].pc = "loop" /\ workers[w].idx = 4
        /\ Len(workers[w].courses) = 3
        /\ CallNames(CallsOf(workers[w])) =
              <<<<"profile", 0>>, <<"courses", 0>>, <<"grade", 1>>, <<"grade", 2>>, <<"grade", 3>>>>

ConcreteThemes == {"light", "dark", "nord"}

\* C18: get_theme_styles returns, for every identifier, the payload of one
\* concrete theme: the theme itself for light, dark and nord, the host
\* appearance (dark or light) for 'auto', light for an unknown name; the
\* style of the main widget is always such a payload.
C18_ThemeResolution ==
    /\ \A id \in ThemeIds :
         LET payload == get_theme_styles(id)
         IN  /\ payload \in ConcreteThemes
             /\ id \in ConcreteThemes => payload = id
             /\ id = "auto" => payload = get_system_theme
             /\ id \notin THEMES => payload = "light"
    /\ get_system_theme \in {"light", "dark"}
    /\ main_style \in ConcreteThemes

\* C18 witness: an unknown identifier has been applied on a dark host and
\* the main widget carries the light payload.
C18_Witness ==
    /\ config_theme = "solarized" /\ current_applied_theme = "solarized"
    /\ system_theme = "dark" /\ main_style = "light"
    /\ last_check.was = "auto" /\ last_check.pushes = 1

\* C19: whenever config.py holds no THEME entry and the theme that
\* load_theme_config yields for it has been applied, the payload on the main
\* widget is the light one, whatever the appearance of the host.
C19_NoEntryMeansLight ==
    (config_theme = None /\ current_applied_theme = load_theme_config(config_theme))
        => main_style = "light"

\* The lines a theme selection may leave different: line i of the file is
\* kept, or it started with 'THEME = ' and now holds the selected theme.
SameButTheme(old, new, theme) ==
    /\ Len(new) >= Len(old)
    /\ \A i \in 1..Len(old) :
           \/ new[i] = old[i]
           \/ StartsWithTheme(old[i]) /\ new[i] = ThemeLine(theme)
    /\ \A i \in (Len(old) + 1)..Len(new) : new[i] \in {ThemeLine(theme), Blank}

\* C20: a theme selection in the settings dialog (save_theme_config) leaves
\* every line of config.py that is not a THEME line as it was, the
\* CANVAS_BASE_URL and API_TOKEN entries included; and a refresh trigger
\* (refresh_data with check_theme_changes and apply_theme), a step of the
\* worker and the delivery of its signals leave config.py untouched.
C20_OnlyThemeKeyWritten ==
    [][ /\ (\E t \in THEMES : on_theme_changed(t)) =>
            /\ SameButTheme(config_py, config_py', dialog'.combo)
            /\ Imported(config_py', "CANVAS_BASE_URL")
                   = Imported(config_py, "CANVAS_BASE_URL")
            /\ Imported(config_py', "API_TOKEN") = Imported(config_py, "API_TOKEN")
        /\ (RefreshClicked \/ WorkerStore \/ Deliver) =>
            config_py' = config_py ]_vars

\* C20 witness: in a file with a commented-out THEME line the live THEME line
\* has been replaced by the selection, the connection settings are in place,
\* and a cycle has run and failed meanwhile.
C20_Witness ==
    /\ dialog.open /\ dialog.combo = "nord"
    /\ config_py = <<Comment, Line("", "CANVAS_BASE_URL", " = ", "url1"),
                     Line("", "API_TOKEN", " = ", "tok"),
                     Line("# ", "THEME", " = ", "dark"), ThemeLine("nord"), Blank>>
    /\ shown["timeout"] # ""

\* The style sheets and rebuilds of the handler that ran last were pushed
\* before it started its worker.
ChecksBeforeStart(out) ==
    \A i \in 1..Len(out) :
        out[i].op = "api_worker.start" => i = Len(out)

\* C13: the widget comes out of __init__ with the theme of the store applied
\* and checked, and every later trigger of refresh_data (timer tick, refresh
\* button, settings accepted) runs check_theme_changes, so that it ends with
\* the theme of the store applied, whether or not the widget is configured;
\* what the check pushes is pushed before the worker of the trigger starts.
C13_CheckOnEveryTrigger ==
    /\ last_check.n = 1
    /\ current_applied_theme = load_theme_config(config_theme)
    /\ ChecksBeforeStart(ui_out)
    /\ [][RefreshDataStep =>
            /\ current_applied_theme' = load_theme_config(FileTheme(config_py'))
            /\ last_check'.n >= 1
            /\ ChecksBeforeStart(ui_out')
            /\ ~Configured(canvas_url', api_token') =>
                   /\ status_label' = "Configuration missing"
                   /\ workers' = workers]_vars

\* C13 witness: a trigger on a configured widget found the store changed
\* from light to dark, pushed the dark style, rebuilt the course widgets
\* and then started its worker.
C13_Witness ==
    /\ ui_out = <<Push("setStyleSheet", "dark"), Push("display_courses", ""),
                  Push("api_worker.start", "")>>
    /\ current_applied_theme = "dark" /\ last_check.was = "light"

\* C13 witness on an unconfigured widget: the trigger applied the dark theme
\* of the store and started no cycle.
C13_WitnessUnconfigured ==
    /\ ui_out = <<Push("setStyleSheet", "dark"), Push("display_courses", "")>>
    /\ status_label = "Configuration missing" /\ api_token = ""
    /\ current_applied_theme = "dark" /\ last_check.was = "light"

\* A step of a CanvasAPIWorker, whatever the server answers.
WorkerStep == WorkerNext(Profiles, CourseLists, ListFailures, GradeInfos)

\* C21: a step of the worker leaves the course list, the profile, the applied
\* theme, theme_applying, the style, the status text, the button and config.py
\* of the widget as they are; what it hands to the UI thread is at most one
\* signal appended to the queue.
C21_WorkerOnlyEmits ==
    [][WorkerStep =>
          /\ UNCHANGED <<courses, profile_data, name_label, avatar_label, avatar_requests, current_applied_theme,
                         theme_applying, main_style, status_label,
                         refresh_button, config_py, canvas_url, api_token>>
          /\ \/ ui_queue' = ui_queue
             \/ \E ev \in {ui_queue'[Len(ui_queue')]} :
                    ui_queue' = Append(ui_queue, ev)]_vars

\* C21 witness: a worker has run a whole cycle and emitted courses_fetched
\* with three courses; before the delivery the widget still shows the state
\* refresh_data left.
C21_Witness ==
    /\ workers[1] = NoWorker /\ api_worker = 1
    /\ ui_queue # <<>>
    /\ ui_queue[Len(ui_queue)].sig = "courses_fetched"
    /\ Len(ui_queue[Len(ui_queue)].courses) = 3
    /\ courses = <<>> /\ status_label = "Refreshing courses..." /\ ~refresh_button

\* The field of the grade dictionary a grade text shows.
FieldShown(text) ==
    CASE text.prefix \in {"Current: ", "Current Grade: "} -> "current_score"
      [] text.prefix \in {"Final: ", "Final Grade: "} -> "final_score"
      [] text.prefix \in {"Grade: No grade yet", "Grade: No grade available"}
            -> "no grade"
      [] OTHER -> "not available"

\* C22: for every course the widget displays, the grade label shows the
\* current score (with the current letter when there is one) when
\* current_score is not null, whatever final_score is; the final score when
\* only final_score is not null; no grade when both are null; not available
\* when the grade call failed; and the command-line fetcher shows the same
\* field, score and letter for the same grade information.
C22_CurrentScoreFirst ==
    \A i \in 1..Len(courses) :
        LET grade_info == courses[i].grade_info
            label == create_grade_label(grade_info)
            line == cli_grade_line(grade_info)
        IN  /\ FieldShown(label) = FieldShown(line)
            /\ label.score = line.score /\ label.letter = line.letter
            /\ IF grade_info = None
               THEN FieldShown(label) = "not available"
               ELSE LET g == GradeFields(grade_info)
                    IN  /\ g.current_score # None =>
                               /\ FieldShown(label) = "current_score"
                               /\ label.score = Format1f(g.current_score)
                               /\ label.letter = Letter(g.current_grade)
                        /\ (g.current_score = None /\ g.final_score # None) =>
                               /\ FieldShown(label) = "final_score"
                               /\ label.score = Format1f(g.final_score)
                               /\ label.letter = Letter(g.final_grade)
                        /\ (g.current_score = None /\ g.final_score = None) =>
                               FieldShown(label) = "no grade"

\* C22 witness: the widget displays a course with both scores next to a
\* course whose grade call failed.
C22_Witness ==
    /\ Len(courses) = 2 /\ status_label = "Last updated"
    /\ courses[1].grade_info = "both" /\ courses[2].grade_info = None

\* C23: once the avatar downloads have completed, the name and the avatar
\* shown are those of the profile applied last (the default picture when it
\* has no avatar or its download failed).
C23_LatestProfileShown ==
    (profile_data # None /\ avatar_requests = <<>>) =>
        /\ name_label = ProfileFields(profile_data).name
        /\ avatar_label \in {ProfileFields(profile_data).avatar_url, "default"}

\* A trigger of refresh_data on a widget that is not configured when
\* refresh_data runs.
UnconfiguredTrigger == RefreshDataStep /\ ~Configured(canvas_url', api_token')

C25_CancelledCycleEmitsNoError ==
    [][\A w \in WorkerIds :
          (workers[w].stop /\ workers'[w] # workers[w])
              => ~Emitted("error_occurred")]_vars

\* The course list a cycle against url delivers: every course with its grade.
DeliveredAt(url) ==
    [i \in 1..Len(CoursesAt(url)) |-> [CoursesAt(url)[i] EXCEPT !.grade_info = "cur"]]

\* C26: when no cycle is outstanding (no worker runs, no signal is queued),
\* the course list and the profile the widget holds are those of the site
\* the widget is configured with.
C26_LatestConfigurationShown ==
    (Running = {} /\ ui_queue = <<>>) =>
        /\ courses = DeliveredAt(canvas_url)
        /\ profile_data = ProfileAt(canvas_url)

\* C27: a theme application request that fires while theme_applying is True
\* (an application is in progress; the settings dialog is open again and a
\* theme was selected in it) leaves theme_applying True, be it
\* apply_all_theme_changes or apply_comprehensive_theme_change.
C27_SkippedRequestKeepsGuard ==
    [][(theme_applying /\ dialog.open /\ dialog.combo # dialog.original_theme
            /\ (apply_comprehensive_theme_change \/ apply_all_theme_changes(FALSE)))
          => theme_applying']_vars

\* C28: theme_applying is True only while an application is executing (the
\* only place where the UI thread hands control back in the middle of one
\* is the message box of apply_all_theme_changes); an application that set
\* the flag resets it when it returns, and so does the one that failed when
\* its message box is dismissed.
C28_GuardReleasedOnEveryExit ==
    /\ [](theme_applying => msgbox > 0)
    /\ [][((~theme_applying /\ msgbox' = msgbox
                /\ (apply_comprehensive_theme_change
                        \/ apply_all_theme_changes(FALSE)))
            \/ MsgBoxDismissed) => ~theme_applying']_vars

\* C28 witness: an application failed after it had set the flag; its message
\* box is open and the flag is still True.
C28_Witness ==
    /\ theme_applying /\ msgbox = 1
    /\ ~dialog.open /\ pending = {}
    /\ current_applied_theme = "dark"

\* The step has emitted a terminal event of a cycle.
TerminalEmitted == Emitted("courses_fetched") \/ Emitted("error_occurred")

\* C29: a step of a running worker emits at most one signal; a terminal
\* event (courses_fetched, error_occurred) is emitted only by the step with
\* which run returns, hence at most once in a cycle and never both; and the
\* run of a worker that was not asked to stop returns with one.
C29_OneTerminalEvent ==
    [][\A w \in WorkerIds :
          (isRunning(w) /\ workers'[w] # workers[w]) =>
              /\ ui_queue' # ui_queue =>
                     \E ev \in {ui_queue'[Len(ui_queue')]} :
                         ui_queue' = Append(ui_queue, ev)
              /\ TerminalEmitted => workers'[w].st = "stopped"
              /\ (workers'[w].st = "stopped" /\ ~workers[w].stop)
                     => TerminalEmitted]_vars

\* C29 witness: a cycle has emitted its profile and then failed on a course
\* without id; run has returned and error_occurred is its one terminal event.
C29_Witness ==
    /\ Len(ui_queue) = 2 /\ workers[1] = NoWorker
    /\ ui_queue[1].sig = "profile_fetched"
    /\ ui_queue[2].sig = "error_occurred" /\ ui_queue[2].text = "Error: 'id'"

\* C30: the refresh button is enabled only when no CanvasAPIWorker of the
\* widget is running.
C30_ButtonEnabledOnlyWhenIdle == refresh_button => Running = {}

\* C31: when closeEvent has completed, no worker started by the widget is
\* still running, whether or not it is the one stored in self.api_worker.
C31_NoWorkerRunningAfterClose == ui_pc = "exited" => Running = {}

\* closeEvent completes after it has stopped the worker in self.api_worker
\* while an older worker, no longer referenced, keeps running.
C31_OlderWorkerSurvivesClose ==
    /\ ui_pc = "exited"
    /\ \E i \in 1..Len(close_log) : close_log[i] = "stop"
    /\ \E w \in Running : w # api_worker

\* The delivery of a courses_fetched signal to on_courses_fetched.
CoursesDelivered ==
    /\ ui_queue # <<>> /\ Head(ui_queue).sig = "courses_fetched"
    /\ ui_queue' = Tail(ui_queue)

\* C32: the course list of the widget changes only when a courses_fetched
\* signal is delivered, and then to the emitted list as a whole; the
\* delivery of error_occurred changes the status text and the refresh button
\* only: the course list, the course widgets (no rebuild), the applied theme
\* and style, the profile, the configuration and the workers stay as they
\* are, so the list of the last successful cycle stays in place.
C32_SnapshotReplacedOnlyOnSuccess ==
    [][/\ courses' # courses =>
            /\ CoursesDelivered
            /\ courses' = Head(ui_queue).courses
       /\ ErrorDelivered =>
            /\ UNCHANGED <<courses, current_applied_theme, main_style,
                           theme_applying, profile_data, name_label,
                           avatar_label, avatar_requests, canvas_url,
                           api_token, config_py, refresh_timer, api_worker,
                           workers, dialog, pending>>
            /\ Rebuilds(ui_out') = {} /\ StylePushes(ui_out') = {}]_vars

\* C32 witness: a cycle delivered a course list, a later cycle failed and
\* its error has been handled: the list of the earlier cycle is still held
\* under the error status.
C32_Witness ==
    /\ courses # <<>> /\ status_label = "Error: Failed to fetch courses"
    /\ refresh_button /\ ui_queue = <<>> /\ Running = {}
    /\ ui_out = <<>> /\ ui_pc = "loop"

\* C33: whatever config.py held before, after save_theme_config(t) (called
\* by on_theme_changed with the selected theme t) load_theme_config()
\* returns t.
C33_SaveThenLoadRoundTrip ==
    [][\A t \in THEMES :
          on_theme_changed(t) => load_theme_config(config_theme)' = t]_vars

\* A theme was selected in the dialog, save_theme_config returned, and
\* load_theme_config yields another theme than the selected one.
C33_SavedThemeNotLoaded ==
    /\ dialog.open /\ dialog.combo # dialog.original_theme
    /\ load_theme_config(config_theme) # dialog.combo

\* C34: when the settings dialog is cancelled, the theme load_theme_config
\* yields from config.py and the theme applied to the main widget are the
\* theme the dialog recorded when it was opened (original_theme).
C34_CancelRestoresTheme ==
    [][SettingsRejected =>
          /\ load_theme_config(config_theme)' = dialog.original_theme
          /\ current_applied_theme' = dialog.original_theme]_vars

\* The program started on THEME = "dark"; auto was selected in the settings
\* dialog and the dialog was cancelled: config.py holds auto and the main
\* widget has auto applied.
C34_CancelledSelectionStays ==
    /\ ~dialog.open /\ pending = {} /\ ~theme_applying
    /\ config_module = "dark" /\ config_theme = "auto"
    /\ current_applied_theme = "auto"
    /\ status_label = "Theme updated successfully"

====
